---- MODULE Spec2Model ----
(***************************************************************************)
(* The update session state machine of hawkbit-client.c: the 1 Hz poll     *)
(* timer (hawkbit_pull_cb), deployment intake (process_deployment), the    *)
(* download worker (download_thread), session teardown                     *)
(* (process_deployment_cleanup) and the installer callbacks                *)
(* (hawkbit_progress, install_complete_cb).                                *)
(*                                                                         *)
(* The control thread and the download worker run concurrently; every      *)
(* access to the shared action_id, to the bundle file and to the worker    *)
(* handle is a step of its own, so that all interleavings are explored.    *)
(***************************************************************************)
EXTENDS Integers, Sequences, FiniteSets, TLC

\* the C NULL pointer, also what json_get_string returns for a missing member
NULL == 0

\* ------------------------------------------------------------------ bounds
MaxIds == 2                  \* action ids the server hands out: 1..MaxIds
MaxThreads == 2              \* thread handles available to g_thread_new
MaxProgress == 1             \* progress reports of the installer per install
MaxSize == 1                 \* largest declared artifact size / free space
MaxContent == 2              \* distinct bundle contents the server can serve
retry_wait == 2              \* hawkbit_config->retry_wait (seconds)

Ids == 1..MaxIds
Threads == 1..MaxThreads
Contents == 1..MaxContent

\* SHA-1 of a bundle content: injective on the contents of the model
\* (g_checksum_get_string of the checksum fed by curl_write_to_file_cb).
Sha1(c) == 100 + c
Hashes == {Sha1(c) : c \in Contents}

\* config.polling.sleep as the server advertises it: the fields of "HH:MM:SS";
\* the fields of a string that ends early ("HH:MM"); <<>> when the base
\* response has no config.polling.sleep
NoSleep == <<>>
SleepTimes == {<<0, 0, 1>>}
ShortSleepTimes == {<<0, 0>>}
SleepStrings == SleepTimes \cup ShortSleepTimes

\* what a member of struct tm that nothing has written may hold when read
Indeterminate == {1, 2}

VARIABLES
    \* ---- state shared by the threads
    action_id,          \* static gchar * volatile action_id
    thread_download,    \* static GThread *thread_download (NULL or a handle)
    file_exists,        \* bundle_download_location exists on disk
    \* ---- the poller and the process
    interval,           \* ClientData.hawkbit_interval_check_sec
    last_run,           \* ClientData.last_run_sec
    data_res,           \* ClientData.res (exit code; -1 while not assigned)
    loop_running,       \* the GMainLoop has not been quit
    rebooted,           \* reboot(RB_AUTOBOOT) succeeded: the process is gone
    run_once,           \* gboolean run_once
    post_update_reboot, \* hawkbit_config->post_update_reboot
    auth_token,         \* hawkbit_config->auth_token is set
    gateway_token,      \* hawkbit_config->gateway_token is set
    \* ---- control thread: position and locals of the running callback
    cpc,                \* position of the control thread
    cret,               \* where process_deployment_cleanup returns to
    install_success,    \* install_complete_cb: result->install_success
                        \* (FALSE outside the callback)
    res,                \* hawkbit_pull_cb: gboolean res
    base_ok,            \* hawkbit_pull_cb: the base GET succeeded
    json_root,          \* hawkbit_pull_cb: the links of the base response
    identified,         \* hawkbit_pull_cb: "none", or how identify() ended
    error,              \* hawkbit_pull_cb: GError *error ("": NULL)
    reqs,               \* hawkbit_pull_cb: the GETs and PUTs it has sent so far
    dep,                \* process_deployment: the deployment resource
    artifact,           \* process_deployment: struct artifact
    freespace,          \* process_deployment: goffset freespace (-1: not read)
    \* ---- download workers, by thread handle
    wpc,                \* position of each worker
    wart,               \* the artifact each worker owns
    wsum,               \* sha1sum computed by get_binary (NULL: none)
    wreq,               \* the headers of the download request get_binary sent
                        \* (<<>>: none sent)
    \* ---- installer (external collaborator)
    inst,               \* "idle" | "running"
    nprog,              \* progress reports of the running install
    \* ---- observation
    log,                \* feedback POSTs since action_id was last set
    unlink_failed,      \* g_remove failed and left the file behind
    spawned,            \* a worker was spawned for the current action_id
    installed,          \* software_ready_cb was invoked for the current action_id
    reoffered,          \* "again": the current action_id is the one the session
                        \* before it closed; "fresh": it is not; "untracked":
                        \* earlier sessions are not observed
    own_file            \* "yes": the file on disk was opened by the worker that
                        \* was spawned last; "no": it was not, or there is no
                        \* file; "untracked": the writer is not observed

sharedVars == <<action_id, thread_download, file_exists>>
pollVars == <<interval, last_run>>
procVars == <<data_res, loop_running, rebooted>>
cfgVars == <<run_once, post_update_reboot, auth_token, gateway_token>>
tickVars == <<res, base_ok, json_root, identified, error, reqs>>
depVars == <<dep, artifact, freespace>>
ctlVars == <<cpc, cret, install_success, tickVars, depVars>>
wrkVars == <<wpc, wart, wsum, wreq>>
insVars == <<inst, nprog>>
obsVars == <<log, unlink_failed, spawned, installed, reoffered, own_file>>

vars == <<sharedVars, pollVars, procVars, cfgVars, ctlVars, wrkVars, insVars,
          obsVars>>

\* ------------------------------------------------------------- data shapes
NoArtifact == [sha1 |-> NULL, size |-> 0, feedback_url |-> <<"none", NULL>>]

\* what download_thread reads of the artifact it is given
NoWorkerArtifact == [sha1 |-> NULL, feedback_url |-> <<"none", NULL>>]

\* The deployment resource, as far as process_deployment reads it.  Members
\* nested in a missing member are missing too.
NoDep == [id |-> NULL, chunk |-> FALSE, name |-> FALSE, version |-> FALSE,
          artifact |-> FALSE, size |-> NULL, sha1 |-> NULL,
          download |-> FALSE, download_http |-> FALSE]

DepResources ==
    LET noChunk == {[NoDep EXCEPT !.id = i] : i \in Ids \cup {NULL}}
        chunk == {[d EXCEPT !.chunk = TRUE, !.name = n, !.version = v] :
                    d \in noChunk, n \in BOOLEAN, v \in BOOLEAN}
        art == {[d EXCEPT !.artifact = TRUE, !.size = s, !.sha1 = h,
                          !.download = l1, !.download_http = l2] :
                    d \in chunk, s \in {NULL} \cup (1..MaxSize),
                    h \in {NULL} \cup Hashes, l1 \in BOOLEAN, l2 \in BOOLEAN}
    IN noChunk \cup chunk \cup art

\* The links of the base poll response, as far as hawkbit_pull_cb reads them.
BaseResponses ==
    [configData : BOOLEAN, deploymentBase : {"none", "nohref", "href"},
     cancelAction : BOOLEAN]

\* What the tick holds of the base response: config.polling.sleep until the
\* links are read, then the deploymentBase and cancelAction links
\* ($._links.configData shows in identified).
NoLinks == [sleep |-> NoSleep, deploymentBase |-> "none", cancelAction |-> FALSE]

\* the response after json_get_sleeptime, its links not read yet
Polled(sleep) == [sleep |-> sleep, deploymentBase |-> "unread", cancelAction |-> FALSE]

Links(resp) == [sleep |-> NoSleep, deploymentBase |-> resp.deploymentBase,
                cancelAction |-> resp.cancelAction]

\* build_api_url: the endpoint a path names; the action id is part of the
\* feedback URL.
build_api_url(path, id) == <<path, id>>

\* One line of a request's header list.
Header(name, value) == [name |-> name, value |-> value]

\* the token headers with two independent tests, one for each token
TokenHeaders_both ==
    (IF auth_token THEN <<Header("Authorization", "TargetToken")>> ELSE <<>>)
    \o (IF gateway_token THEN <<Header("Authorization", "GatewayToken")>>
        ELSE <<>>)

\* rest_request and get_binary: if (auth_token) the TargetToken header, else
\* if (gateway_token) the GatewayToken header, else none
TokenHeaders ==
    IF auth_token THEN <<Header("Authorization", "TargetToken")>>
    ELSE IF gateway_token THEN <<Header("Authorization", "GatewayToken")>>
    ELSE <<>>

\* rest_request: Accept, the token header, and Content-Type when there is a
\* body
RestHeaders(jsonRequestBody) ==
    <<Header("Accept", "application/json;charset=UTF-8")>>
    \o TokenHeaders
    \o (IF jsonRequestBody
        THEN <<Header("Content-Type", "application/json;charset=UTF-8")>>
        ELSE <<>>)

\* get_binary: Accept and the token header
BinaryHeaders == <<Header("Accept", "application/octet-stream")>> \o TokenHeaders

\* A request as it leaves the agent (rest_request).
Request(method, url, id, detail, finished, execution) ==
    [method |-> method, url |-> url, id |-> id, detail |-> detail,
     finished |-> finished, execution |-> execution,
     headers |-> RestHeaders(TRUE)]

\* feedback() that never closes: whatever it is asked, it reports "proceeding"
feedback_proceeding(url, id, detail, finished, execution) ==
    Request("POST", url, id, detail, finished, "proceeding")

\* feedback(): json_build_status + rest_request(POST, url, ...)
feedback(url, id, detail, finished, execution) ==
    Request("POST", url, id, detail, finished, execution)

\* feedback_progress() building its envelope without the id
feedback_progress_noid(url, id, detail) ==
    Request("POST", url, NULL, detail, "none", "proceeding")

\* feedback_progress(): finished "none", execution "proceeding"
feedback_progress(url, id, detail) ==
    Request("POST", url, id, detail, "none", "proceeding")

\* json_build_status: the envelope; a NULL id is left out, data is given by
\* identify alone
json_build_status(id, detail, finished, execution, data) ==
    [id |-> id, detail |-> detail, finished |-> finished, execution |-> execution,
     data |-> data]

\* a request without a body
NoBody == json_build_status(NULL, "", "none", "none", "none")

\* rest_request as hawkbit_pull_cb and its callees use it
rest_request(method, url, body) ==
    [method |-> method, url |-> url, body |-> body,
     headers |-> RestHeaders(body # NoBody)]

\* identify() sending an envelope that carries the pending action id
identify_with_id ==
    rest_request("PUT", build_api_url("configData", NULL),
                 json_build_status(action_id, "", "success", "closed", "device"))

\* identify(): PUT configData, an envelope without id, with the device
\* attributes as data
identify ==
    rest_request("PUT", build_api_url("configData", NULL),
                 json_build_status(NULL, "", "success", "closed", "device"))

\* strptime(sleeptime_str, "%T", &time) into a struct tm nothing has written:
\* each field the string has is stored, and the conversion stops where the
\* string ends; tm_sec then holds whatever it held
strptime(str, unwritten) ==
    [tm_hour |-> str[1], tm_min |-> str[2],
     tm_sec |-> IF Len(str) >= 3 THEN str[3] ELSE unwritten]

\* json_get_sleeptime: retry_wait when the member is absent, else the seconds
\* of the struct tm, whatever strptime returned
json_get_sleeptime(sleep, unwritten) ==
    IF sleep = NoSleep THEN retry_wait
    ELSE LET time == strptime(sleep, unwritten)
         IN time.tm_sec + (time.tm_min * 60) + (time.tm_hour * 60 * 60)

Closed(l) == {i \in 1..Len(l) : l[i].execution = "closed"}

\* an observation of earlier sessions, recorded only where they are observed
Observed(v, new) == IF v = "untracked" THEN v ELSE new

\* ------------------------------------------------------------------- Init
\* a service that starts counting the seconds from 0
StartCounters_zero(wait) == interval = wait /\ last_run = 0

\* hawkbit_start_service_sync: both counters start at retry_wait
StartCounters(wait) == interval = wait /\ last_run = wait

\* the state hawkbit_start_service_sync enters its main loop in
Start ==
    /\ action_id = NULL
    /\ thread_download = NULL
    /\ file_exists = FALSE
    /\ StartCounters(retry_wait)
    /\ data_res = -1
    /\ loop_running = TRUE
    /\ rebooted = FALSE
    /\ run_once \in BOOLEAN
    /\ post_update_reboot \in BOOLEAN
    /\ cpc = "idle"
    /\ cret = "none"
    /\ install_success = FALSE
    /\ res = FALSE
    /\ base_ok = FALSE
    /\ json_root = NoLinks
    /\ identified = "none"
    /\ error = ""
    /\ reqs = <<>>
    /\ dep = NoDep
    /\ artifact = NoArtifact
    /\ freespace = -1
    /\ wpc = [t \in Threads |-> "none"]
    /\ wart = [t \in Threads |-> NoWorkerArtifact]
    /\ wsum = [t \in Threads |-> NULL]
    /\ wreq = [t \in Threads |-> <<>>]
    /\ inst = "idle"
    /\ nprog = 0
    /\ log = <<>>
    /\ unlink_failed = FALSE
    /\ spawned = FALSE
    /\ installed = FALSE

\* The agent configured with a target token alone. The two tokens are read by
\* the header code of rest_request and get_binary and by nothing else.
Init ==
    /\ Start
    /\ auth_token = TRUE
    /\ gateway_token = FALSE
    /\ reoffered = "untracked"
    /\ own_file = "untracked"

\* The agent under each of the four token configurations.
TokenInit ==
    /\ Start
    /\ auth_token \in BOOLEAN
    /\ gateway_token \in BOOLEAN
    /\ reoffered = "untracked"
    /\ own_file = "untracked"

\* The agent of Init, observed across sessions: whether an action id comes
\* back after the session that closed it.
HistoryInit ==
    /\ Start
    /\ auth_token = TRUE
    /\ gateway_token = FALSE
    /\ reoffered = "fresh"
    /\ own_file = "no"

\* The process is alive.
Alive == ~rebooted

\* The control thread is in its main loop, between two callbacks.
Dispatching == Alive /\ loop_running /\ cpc = "idle"

\* ------------------------------------------------- control thread: polling
\* the tick goes to label out with res = r and error = e
GotoOut(r, e) ==
    /\ cpc' = "out"
    /\ cret' = "none"
    /\ res' = r
    /\ error' = e

\* the entry check left out: a deployment is taken in whatever the session
AlreadyInProgress_unchecked == FALSE

\* the deployment resource taken in whether it has an id or not
IdMissing_unchecked(id) == FALSE

\* process_deployment: if (!action_id) after the id is read from the response
IdMissing(id) == id = NULL

\* process_deployment, entry check: a session is active
AlreadyInProgress == action_id # NULL

\* the tick test off by one: the poll put off to the tick after the interval
NotDue_late == last_run + 1 <= interval

\* ++data->last_run_sec < data->hawkbit_interval_check_sec
NotDue == last_run + 1 < interval

\* hawkbit_pull_cb, a tick before the interval has elapsed
hawkbit_pull_cb_wait ==
    /\ Dispatching
    /\ NotDue
    /\ last_run' = last_run + 1
    /\ UNCHANGED <<sharedVars, interval, procVars, cfgVars, ctlVars, wrkVars,
                   insVars, obsVars>>

\* hawkbit_pull_cb, the base GET fails
hawkbit_pull_cb_failed ==
    /\ Dispatching
    /\ ~NotDue
    /\ last_run' = 0
    /\ base_ok' = FALSE
    /\ interval' = retry_wait
    /\ reqs' = <<rest_request("GET", build_api_url("base", NULL), NoBody)>>
    /\ GotoOut(FALSE, "HTTP")
    /\ UNCHANGED <<sharedVars, procVars, cfgVars, json_root, identified, depVars,
                   wrkVars, insVars, obsVars>>
    /\ UNCHANGED install_success

\* the identify block without its assignment to res
IdentifyResult_ignored(resp, ok) == TRUE

\* res after the identify block: identify's result if it ran, else the base
\* GET's
IdentifyResult(resp, ok) == IF resp.configData THEN ok ELSE TRUE

\* process_deployment without its checks before the GET
EntryError_none(resp) == ""

\* process_deployment before its GET: the error it returns with, "" if none
EntryError(resp) ==
    IF AlreadyInProgress THEN "ALREADY_IN_PROGRESS"
    ELSE IF resp.deploymentBase = "nohref" THEN "JSON_RESPONSE_PARSE"
    ELSE ""

\* hawkbit_pull_cb, the base GET succeeds: the sleep time becomes the interval
hawkbit_pull_cb_poll ==
    /\ Dispatching
    /\ ~NotDue
    /\ \E sleep \in {NoSleep} \cup SleepStrings, unwritten \in Indeterminate :
         /\ (sleep \notin ShortSleepTimes => unwritten = 1)
         /\ interval' = json_get_sleeptime(sleep, unwritten)
         /\ json_root' = Polled(sleep)
    /\ last_run' = 0
    /\ base_ok' = TRUE
    /\ res' = TRUE
    /\ reqs' = <<rest_request("GET", build_api_url("base", NULL), NoBody)>>
    /\ cpc' = "polled"
    /\ UNCHANGED <<sharedVars, procVars, cfgVars, cret, identified, error, depVars,
                   wrkVars, insVars, obsVars>>
    /\ UNCHANGED install_success

\* a cancelAction link taken for a deployment to process
HasDeployment_or_cancel(resp) ==
    resp.deploymentBase # "none" \/ resp.cancelAction

\* json_contains(json_root, "$._links.deploymentBase")
HasDeployment(resp) == resp.deploymentBase # "none"

\* hawkbit_pull_cb, the links of the base response: identify, then the entry
\* of process_deployment up to its GET of the deployment resource
hawkbit_pull_cb_links ==
    /\ Alive
    /\ cpc = "polled"
    /\ \E resp \in BaseResponses, ok \in BOOLEAN :
         /\ (~resp.configData => ok)
         /\ json_root' = Links(resp)
         /\ identified' = IF ~resp.configData THEN "none"
                          ELSE IF ok THEN "ok" ELSE "failed"
         /\ reqs' = IF resp.configData THEN Append(reqs, identify) ELSE reqs
         /\ IF ~HasDeployment(resp)
            THEN GotoOut(IdentifyResult(resp, ok), "")
            ELSE IF EntryError(resp) # ""
            THEN GotoOut(FALSE, EntryError(resp))
            ELSE /\ cpc' = "pd_get"
                 /\ res' = IdentifyResult(resp, ok)
                 /\ UNCHANGED <<cret, error>>
    /\ UNCHANGED <<sharedVars, pollVars, procVars, cfgVars, base_ok, depVars,
                   wrkVars, insVars, obsVars>>
    /\ UNCHANGED install_success

\* hawkbit_pull_cb, label out: in run_once mode the exit code is stored and
\* the main loop is quit; the callback returns and its locals are gone
hawkbit_pull_cb_out ==
    /\ Alive
    /\ cpc = "out"
    /\ cpc' = "idle"
    /\ res' = FALSE
    /\ base_ok' = FALSE
    /\ json_root' = NoLinks
    /\ identified' = "none"
    /\ error' = ""
    /\ reqs' = <<>>
    /\ IF run_once
       THEN /\ data_res' = (IF res THEN 0 ELSE 1)
            /\ loop_running' = FALSE
       ELSE UNCHANGED <<data_res, loop_running>>
    /\ UNCHANGED <<sharedVars, pollVars, rebooted, cfgVars, cret, depVars,
                   wrkVars, insVars, obsVars>>
    /\ UNCHANGED install_success

\* ------------------------------------------- control thread: process_deployment
\* process_deployment: GET of the deployment resource, then
\* action_id = json_get_string(resp_root, "$.id") and the feedback URL
process_deployment_get ==
    /\ Alive
    /\ cpc = "pd_get"
    /\ reqs' = Append(reqs, rest_request("GET", build_api_url("deployment", NULL),
                                         NoBody))
    /\ \/ \* rest_request fails: return FALSE
          /\ GotoOut(FALSE, "HTTP")
          /\ UNCHANGED <<action_id, depVars, log, spawned, reoffered, installed>>
       \/ \E d \in DepResources :
            /\ action_id' = d.id
            /\ IF IdMissing(d.id)
               THEN /\ GotoOut(FALSE, "1:1")
                    /\ UNCHANGED <<depVars, log, spawned, reoffered, installed>>
               ELSE /\ cpc' = "pd_parse"
                    /\ dep' = [NoDep EXCEPT !.id = d.id]
                    /\ artifact' = [NoArtifact EXCEPT
                          !.feedback_url = build_api_url("feedback", d.id)]
                    /\ log' = <<>>
                    /\ spawned' = FALSE
                    /\ installed' = FALSE
                    /\ reoffered' = Observed(reoffered,
                                       IF \E i \in Closed(log) : log[i].id = d.id
                                       THEN "again" ELSE "fresh")
                    /\ UNCHANGED <<cret, res, error, freespace>>
    /\ UNCHANGED <<thread_download, file_exists, pollVars, procVars, cfgVars,
                   base_ok, json_root, identified, wrkVars, insVars,
                   unlink_failed, own_file>>
    /\ UNCHANGED install_success

\* process_deployment: the members whose absence is a parse failure
ParseFailure(d) ==
    \/ ~d.chunk
    \/ ~d.artifact
    \/ (~d.download /\ ~d.download_http)

\* the free space check with the comparison off by one
EnoughSpace_strict(free, size) == free > size

\* process_deployment: the free space check passes
EnoughSpace(free, size) == ~(free < size)

\* a closed failure feedback, the error set, then goto proc_error
ProcError(detail, e) ==
    /\ log' = Append(log, feedback(artifact.feedback_url, action_id, detail,
                                   "failure", "closed"))
    /\ error' = e
    /\ cpc' = "cleanup_clear"
    /\ cret' = "proc_error"

\* process_deployment: parse the deployment resource into the artifact
process_deployment_parse ==
    /\ Alive
    /\ cpc = "pd_parse"
    /\ dep' = NoDep
    /\ \E d \in DepResources :
         /\ d.id = dep.id
         /\ IF ParseFailure(d)
            THEN /\ ProcError("Failed to parse deployment resource.",
                              "JSON_RESPONSE_PARSE")
                 /\ UNCHANGED artifact
            ELSE \* json_get_int of a missing member: any value
                 \E size \in (IF d.size # NULL THEN {d.size} ELSE 0..MaxSize) :
                   /\ artifact' = [artifact EXCEPT !.size = size, !.sha1 = d.sha1]
                   /\ cpc' = "pd_space"
                   /\ UNCHANGED <<cret, log, error>>
    /\ UNCHANGED <<sharedVars, pollVars, procVars, cfgVars, res, base_ok,
                   json_root, identified, reqs, freespace, wrkVars, insVars,
                   unlink_failed, own_file, spawned, reoffered, installed>>
    /\ UNCHANGED install_success

\* process_deployment: check the free space
process_deployment_space ==
    /\ Alive
    /\ cpc = "pd_space"
    /\ \E statvfs \in BOOLEAN :
         IF ~statvfs
         THEN /\ ProcError("Failed to calculate free space", "G_FILE_ERROR")
              /\ UNCHANGED freespace
         ELSE \E free \in 0..MaxSize :
                /\ freespace' = free
                /\ IF ~EnoughSpace(free, artifact.size)
                   THEN ProcError("Not enough free space.", "1:23")
                   ELSE /\ cpc' = "pd_spawn"
                        /\ UNCHANGED <<cret, log, error>>
    /\ UNCHANGED <<sharedVars, pollVars, procVars, cfgVars, res, base_ok,
                   json_root, identified, reqs, dep, artifact, wrkVars, insVars,
                   unlink_failed, own_file, spawned, reoffered, installed>>
    /\ UNCHANGED install_success

\* process_deployment spawning without the g_thread_join
Joined_skipped == TRUE

\* g_thread_join(thread_download) returns: no previous worker, or it has exited
Joined == IF thread_download = NULL THEN TRUE ELSE wpc[thread_download] = "exited"

\* the handles g_thread_new can return: those not in use once the previous
\* worker is joined
FreeThreads ==
    {t \in Threads : wpc[t] = "none" \/ (t = thread_download /\ wpc[t] = "exited")}

\* process_deployment: join the previous worker, spawn download_thread, which
\* owns the artifact from now on, return
process_deployment_spawn ==
    /\ Alive
    /\ cpc = "pd_spawn"
    /\ Joined
    /\ FreeThreads # {}
    /\ LET t == CHOOSE f \in FreeThreads : \A g \in FreeThreads : f <= g
           joined == IF thread_download # NULL /\ wpc[thread_download] = "exited"
                     THEN [wpc EXCEPT ![thread_download] = "none"]
                     ELSE wpc
       IN /\ thread_download' = t
          /\ wpc' = [joined EXCEPT ![t] = "get_binary"]
          /\ wart' = [wart EXCEPT ![t] = [sha1 |-> artifact.sha1,
                                           feedback_url |-> artifact.feedback_url]]
          /\ wsum' = [wsum EXCEPT ![t] = NULL]
          /\ wreq' = [wreq EXCEPT ![t] = <<>>]
    /\ spawned' = TRUE
    /\ own_file' = Observed(own_file, "no")
    /\ UNCHANGED reoffered
    /\ artifact' = NoArtifact
    /\ freespace' = -1
    /\ GotoOut(TRUE, error)
    /\ UNCHANGED <<action_id, file_exists, pollVars, procVars, cfgVars, base_ok,
                   json_root, identified, reqs, dep, insVars, log, unlink_failed,
                   installed>>
    /\ UNCHANGED install_success

\* ------------------------------------------------ process_deployment_cleanup
\* a teardown that leaves action_id as it is
cleanup_keep == UNCHANGED action_id

\* action_id = NULL; g_free(ptr)
cleanup_clear == action_id' = NULL

\* a teardown that leaves the bundle file on disk
cleanup_remove_skipped(ok) == UNCHANGED <<file_exists, unlink_failed, own_file>>

\* g_remove(bundle_download_location): ok says whether the unlink succeeds
cleanup_remove(ok) ==
    IF file_exists /\ ok
    THEN /\ file_exists' = FALSE /\ unlink_failed' = FALSE
         /\ own_file' = Observed(own_file, "no")
    ELSE unlink_failed' = file_exists /\ UNCHANGED <<file_exists, own_file>>

\* the control thread returns from process_deployment_cleanup: to label
\* proc_error, where process_deployment returns FALSE and its locals are gone,
\* or into install_complete_cb
Return ==
    CASE cret = "proc_error" ->
            /\ GotoOut(FALSE, error) /\ artifact' = NoArtifact /\ freespace' = -1
            /\ UNCHANGED install_success
      [] cret = "reboot" ->
            /\ cpc' = "reboot" /\ cret' = "none"
            /\ UNCHANGED <<res, error, artifact, freespace, install_success>>
      [] OTHER ->
            /\ cpc' = "idle" /\ cret' = "none" /\ install_success' = FALSE
            /\ UNCHANGED <<res, error, artifact, freespace>>

ctl_cleanup_clear ==
    /\ Alive
    /\ cpc = "cleanup_clear"
    /\ cleanup_clear
    /\ cpc' = "cleanup_test"
    /\ UNCHANGED <<thread_download, file_exists, pollVars, procVars, cfgVars,
                   cret, tickVars, depVars, wrkVars, insVars, obsVars>>
    /\ UNCHANGED install_success

\* g_file_test(bundle_download_location, G_FILE_TEST_EXISTS)
ctl_cleanup_test ==
    /\ Alive
    /\ cpc = "cleanup_test"
    /\ IF file_exists
       THEN /\ cpc' = "cleanup_remove"
            /\ UNCHANGED <<cret, res, error, artifact, freespace, install_success>>
       ELSE Return
    /\ UNCHANGED <<sharedVars, pollVars, procVars, cfgVars, base_ok, json_root,
                   identified, reqs, dep, wrkVars, insVars, obsVars>>

ctl_cleanup_remove ==
    /\ Alive
    /\ cpc = "cleanup_remove"
    /\ \E ok \in BOOLEAN : cleanup_remove(ok)
    /\ Return
    /\ UNCHANGED <<action_id, thread_download, pollVars, procVars, cfgVars,
                   base_ok, json_root, identified, reqs, dep, wrkVars, insVars,
                   log, spawned, reoffered, installed>>

\* --------------------------------------------------------- installer bridge
\* The installer reports through the control thread's event loop, after the
\* software-ready callback handed it the callbacks.
InstallerReports == Dispatching /\ inst = "running"

\* A report that reaches the event loop when no installer is running and no
\* session is open: hawkbit_progress or install_complete_cb is called with
\* action_id NULL.
LateReport == Dispatching /\ inst = "idle" /\ action_id = NULL

\* hawkbit_progress posting whether or not a session is open
HasSession_unchecked == TRUE

\* hawkbit_progress: if (action_id)
HasSession == action_id # NULL

\* hawkbit_progress
hawkbit_progress ==
    /\ InstallerReports \/ LateReport
    /\ IF HasSession
       THEN /\ nprog < MaxProgress
            /\ nprog' = nprog + 1
            /\ log' = Append(log, feedback_progress(
                        build_api_url("feedback", action_id), action_id,
                        "progress"))
       ELSE UNCHANGED <<log, nprog>>
    /\ UNCHANGED <<sharedVars, pollVars, procVars, cfgVars, ctlVars, wrkVars,
                   inst, unlink_failed, own_file, spawned, reoffered, installed>>

\* a reboot whatever the installer's result
RebootAfter_failure(success) == post_update_reboot

\* install_complete_cb: the branch that tears down, syncs and reboots
RebootAfter(success) == success /\ post_update_reboot

\* install_complete_cb reporting a failure whatever the installer's result
complete_feedback_failure(success) ==
    feedback(build_api_url("feedback", action_id), action_id,
             "Failed to install software bundle.", "failure", "closed")

\* install_complete_cb: the closed feedback of either branch
complete_feedback(success) ==
    IF success
    THEN feedback(build_api_url("feedback", action_id), action_id,
                  "Software bundle installed successful.", "success", "closed")
    ELSE feedback(build_api_url("feedback", action_id), action_id,
                  "Failed to install software bundle.", "failure", "closed")

\* install_complete_cb reporting whether or not a session is open
SessionOpen_unchecked == TRUE

\* install_complete_cb: if (action_id)
SessionOpen == action_id # NULL

\* install_complete_cb up to its first process_deployment_cleanup
install_complete_cb ==
    /\ InstallerReports \/ LateReport
    /\ inst' = "idle"
    /\ nprog' = 0
    /\ IF SessionOpen
       THEN \E success \in BOOLEAN :
              /\ install_success' = success
              /\ log' = Append(log, complete_feedback(success))
              /\ cpc' = "cleanup_clear"
              /\ cret' = IF RebootAfter(success) THEN "reboot" ELSE "complete"
       ELSE \* result->install_success is not read
            UNCHANGED <<log, cpc, cret, install_success>>
    /\ UNCHANGED <<sharedVars, pollVars, procVars, cfgVars, tickVars, depVars,
                   wrkVars, unlink_failed, own_file, spawned, reoffered, installed>>

\* install_complete_cb: sync(); reboot(RB_AUTOBOOT).  A reboot that succeeds
\* ends the process; one that fails is logged and the callback goes on to the
\* second process_deployment_cleanup.
install_complete_reboot ==
    /\ Alive
    /\ cpc = "reboot"
    /\ \E failed \in BOOLEAN :
         IF failed
         THEN /\ cpc' = "cleanup_clear"
              /\ cret' = "complete"
              /\ UNCHANGED rebooted
         ELSE /\ rebooted' = TRUE
              /\ UNCHANGED <<cpc, cret>>
    /\ UNCHANGED <<sharedVars, pollVars, data_res, loop_running, cfgVars,
                   tickVars, depVars, wrkVars, insVars, obsVars>>
    /\ UNCHANGED install_success

\* ---------------------------------------------------------- download_thread
\* get_binary: fopen(file, "wb") creates or truncates the file; the transfer
\* succeeds with some content, whose SHA-1 is returned, or fails
get_binary(t) ==
    /\ Alive
    /\ wpc[t] = "get_binary"
    /\ \E fopen \in BOOLEAN, perform \in BOOLEAN, c \in Contents :
         /\ (~(fopen /\ perform) => c = 1)
         /\ (~fopen => ~perform)
         /\ IF fopen
            THEN /\ file_exists' = TRUE
                 /\ unlink_failed' = FALSE
                 /\ own_file' = Observed(own_file, "yes")
                 /\ wreq' = [wreq EXCEPT ![t] = BinaryHeaders]
            ELSE UNCHANGED <<file_exists, unlink_failed, own_file, wreq>>
         /\ IF perform
            THEN /\ wsum' = [wsum EXCEPT ![t] = Sha1(c)]
                 /\ wpc' = [wpc EXCEPT ![t] = "downloaded"]
            ELSE /\ wpc' = [wpc EXCEPT ![t] = "download_failed"]
                 /\ UNCHANGED wsum
    /\ UNCHANGED <<action_id, thread_download, pollVars, procVars, cfgVars,
                   ctlVars, wart, insVars, log, spawned, reoffered, installed>>

\* down_error returning at once, without process_deployment_cleanup
DownError_return(t) ==
    /\ wpc' = [wpc EXCEPT ![t] = "exited"]
    /\ wart' = [wart EXCEPT ![t] = NoWorkerArtifact]
    /\ wsum' = [wsum EXCEPT ![t] = NULL]
    /\ wreq' = [wreq EXCEPT ![t] = <<>>]

\* goto down_error: process_artifact_cleanup(artifact) frees the artifact, and
\* nothing reads sha1sum any more
DownError(t) ==
    /\ wpc' = [wpc EXCEPT ![t] = "cleanup_clear"]
    /\ wart' = [wart EXCEPT ![t] = NoWorkerArtifact]
    /\ wsum' = [wsum EXCEPT ![t] = NULL]
    /\ wreq' = [wreq EXCEPT ![t] = <<>>]

\* download_thread going to down_error without its feedback
download_failed_silent(t) ==
    /\ Alive
    /\ wpc[t] = "download_failed"
    /\ DownError(t)
    /\ UNCHANGED <<sharedVars, pollVars, procVars, cfgVars, ctlVars, insVars,
                   obsVars>>

\* download_thread: "Download failed" feedback, goto down_error
download_failed(t) ==
    /\ Alive
    /\ wpc[t] = "download_failed"
    /\ log' = Append(log, feedback(wart[t].feedback_url, action_id,
                                   "Download failed", "failure", "closed"))
    /\ DownError(t)
    /\ UNCHANGED <<sharedVars, pollVars, procVars, cfgVars, ctlVars, insVars,
                   unlink_failed, own_file, spawned, reoffered, installed>>

\* download_thread going on to the checksum without its progress feedback
download_complete_silent(t) ==
    /\ Alive
    /\ wpc[t] = "downloaded"
    /\ wpc' = [wpc EXCEPT ![t] = "validate"]
    /\ UNCHANGED <<sharedVars, pollVars, procVars, cfgVars, ctlVars, wart, wsum, wreq,
                   insVars, obsVars>>

\* download_thread: "Download complete." progress feedback
download_complete(t) ==
    /\ Alive
    /\ wpc[t] = "downloaded"
    /\ log' = Append(log, feedback_progress(wart[t].feedback_url, action_id,
                                            "Download complete."))
    /\ wpc' = [wpc EXCEPT ![t] = "validate"]
    /\ UNCHANGED <<sharedVars, pollVars, procVars, cfgVars, ctlVars, wart, wsum, wreq,
                   insVars, unlink_failed, own_file, spawned, reoffered, installed>>

\* a comparison that accepts every checksum
ChecksumMismatch_never(sha1, sha1sum) == FALSE

\* g_strcmp0(artifact->sha1, sha1sum) != 0
ChecksumMismatch(sha1, sha1sum) == sha1 # sha1sum

\* download_thread reporting the invalid checksum and going on to the install
validate_checksum_fallthrough(t) ==
    /\ Alive
    /\ wpc[t] = "validate"
    /\ log' = Append(log, IF ChecksumMismatch(wart[t].sha1, wsum[t])
                          THEN feedback(wart[t].feedback_url, action_id,
                                        "Invalid checksum", "failure", "closed")
                          ELSE feedback_progress(wart[t].feedback_url,
                                                 action_id, "File checksum OK."))
    /\ wpc' = [wpc EXCEPT ![t] = "software_ready"]
    /\ UNCHANGED <<wart, wsum, wreq>>
    /\ UNCHANGED <<sharedVars, pollVars, procVars, cfgVars, ctlVars, insVars,
                   unlink_failed, own_file, spawned, reoffered, installed>>

\* download_thread: validate the checksum
validate_checksum(t) ==
    /\ Alive
    /\ wpc[t] = "validate"
    /\ IF ChecksumMismatch(wart[t].sha1, wsum[t])
       THEN /\ log' = Append(log, feedback(wart[t].feedback_url, action_id,
                                  "Invalid checksum", "failure", "closed"))
            /\ DownError(t)
       ELSE /\ log' = Append(log, feedback_progress(wart[t].feedback_url,
                                  action_id, "File checksum OK."))
            /\ wpc' = [wpc EXCEPT ![t] = "software_ready"]
            /\ UNCHANGED <<wart, wsum, wreq>>
    /\ UNCHANGED <<sharedVars, pollVars, procVars, cfgVars, ctlVars, insVars,
                   unlink_failed, own_file, spawned, reoffered, installed>>

\* return NULL: the thread ends and its locals are gone
Exit(t) ==
    /\ wpc' = [wpc EXCEPT ![t] = "exited"]
    /\ wart' = [wart EXCEPT ![t] = NoWorkerArtifact]
    /\ wsum' = [wsum EXCEPT ![t] = NULL]
    /\ wreq' = [wreq EXCEPT ![t] = <<>>]

\* download_thread going through down_error after software_ready_cb
software_ready_teardown(t) ==
    /\ Alive
    /\ wpc[t] = "software_ready"
    /\ inst' = "running"
    /\ nprog' = 0
    /\ installed' = TRUE
    /\ DownError(t)
    /\ UNCHANGED <<sharedVars, pollVars, procVars, cfgVars, ctlVars, log,
                   unlink_failed, own_file, spawned, reoffered>>

\* download_thread: software_ready_cb(&userdata); return NULL
software_ready(t) ==
    /\ Alive
    /\ wpc[t] = "software_ready"
    /\ inst' = "running"
    /\ nprog' = 0
    /\ installed' = TRUE
    /\ Exit(t)
    /\ UNCHANGED <<sharedVars, pollVars, procVars, cfgVars, ctlVars, log,
                   unlink_failed, own_file, spawned, reoffered>>

\* down_error: process_deployment_cleanup on the worker
worker_cleanup_clear(t) ==
    /\ Alive
    /\ wpc[t] = "cleanup_clear"
    /\ cleanup_clear
    /\ wpc' = [wpc EXCEPT ![t] = "cleanup_test"]
    /\ UNCHANGED <<thread_download, file_exists, pollVars, procVars, cfgVars,
                   ctlVars, wart, wsum, wreq, insVars, obsVars>>

worker_cleanup_test(t) ==
    /\ Alive
    /\ wpc[t] = "cleanup_test"
    /\ IF file_exists
       THEN wpc' = [wpc EXCEPT ![t] = "cleanup_remove"] /\ UNCHANGED <<wart, wsum, wreq>>
       ELSE Exit(t)
    /\ UNCHANGED <<sharedVars, pollVars, procVars, cfgVars, ctlVars, insVars,
                   obsVars>>

worker_cleanup_remove(t) ==
    /\ Alive
    /\ wpc[t] = "cleanup_remove"
    /\ \E ok \in BOOLEAN : cleanup_remove(ok)
    /\ Exit(t)
    /\ UNCHANGED <<action_id, thread_download, pollVars, procVars, cfgVars,
                   ctlVars, insVars, log, spawned, reoffered, installed>>

download_thread(t) ==
    \/ get_binary(t)
    \/ download_failed(t)
    \/ download_complete(t)
    \/ validate_checksum(t)
    \/ software_ready(t)
    \/ worker_cleanup_clear(t)
    \/ worker_cleanup_test(t)
    \/ worker_cleanup_remove(t)

\* ------------------------------------------------------------ specification
hawkbit_pull_cb ==
    \/ hawkbit_pull_cb_wait
    \/ hawkbit_pull_cb_failed
    \/ hawkbit_pull_cb_poll
    \/ hawkbit_pull_cb_links
    \/ hawkbit_pull_cb_out

process_deployment ==
    \/ process_deployment_get
    \/ process_deployment_parse
    \/ process_deployment_space
    \/ process_deployment_spawn

process_deployment_cleanup ==
    \/ ctl_cleanup_clear
    \/ ctl_cleanup_test
    \/ ctl_cleanup_remove

Control ==
    \/ hawkbit_pull_cb
    \/ process_deployment
    \/ process_deployment_cleanup
    \/ install_complete_reboot

Worker == \E t \in Threads : download_thread(t)

Installer == hawkbit_progress \/ install_complete_cb

Next == Control \/ Worker \/ Installer

Spec == Init /\ [][Next]_vars

\* The same program under every token configuration.
TokenSpec == TokenInit /\ [][Next]_vars

\* The same program with earlier sessions observed.
HistorySpec == HistoryInit /\ [][Next]_vars

\* The control thread's event loop and the download worker are scheduled
\* fairly (process_deployment joins the previous worker before it spawns the
\* next, so at most one worker has a step to take); nothing is assumed of the
\* installer, which may never report.
FairSpec ==
    /\ Spec
    /\ WF_vars(Control)
    /\ WF_vars(Worker)

\* ------------------------------------------------------------------ claims
\* what the log holds of closed feedback, and of closed feedback carrying id
ClosedFor(l, id) == {i \in Closed(l) : l[i].id = id}

\* a process_deployment_cleanup is between its clear and the end of its unlink
InTeardown ==
    \/ cpc \in {"cleanup_test", "cleanup_remove"}
    \/ \E t \in Threads : wpc[t] \in {"cleanup_test", "cleanup_remove"}

\* C1: single-session mutual exclusion.  action_id never goes from one
\* non-null value directly to another; while process_deployment is between its
\* entry check and its assignment action_id is still null; and a tick that is
\* offered a deployment while action_id is non-null ends at once with
\* ALREADY_IN_PROGRESS, action_id untouched.
C1_SingleSession ==
    /\ [][action_id # NULL => action_id' \in {NULL, action_id}]_vars
    /\ [](cpc = "pd_get" => action_id = NULL)
    /\ [][(cpc = "polled" /\ cpc' # cpc /\ action_id # NULL
             /\ json_root'.deploymentBase # "none")
          => (cpc' = "out" /\ error' = "ALREADY_IN_PROGRESS" /\ ~res'
              /\ action_id' = action_id)]_vars

\* C1 witness: a poll was offered a deployment during a running download and
\* was rejected
C1_Witness ==
    /\ cpc = "out"
    /\ error = "ALREADY_IN_PROGRESS"
    /\ action_id # NULL
    /\ \E t \in Threads : wpc[t] = "downloaded"

\* the last entry of a log, given that it has one
Last(l) == l[Len(l)]

\* a feedback was POSTed by this step
Posted == Len(log') = Len(log) + 1

\* C2: whenever action_id goes from a non-null value X to null, the feedback
\* POSTed since X was set holds exactly one closed envelope, it carries id X,
\* and it was POSTed before the step that clears; at no time does a session's
\* log hold two closed envelopes.
C2_ExactlyOneClosed ==
    /\ [][(action_id # NULL /\ action_id' = NULL)
          => (/\ Cardinality(ClosedFor(log, action_id)) = 1
              /\ Cardinality(Closed(log)) = 1
              /\ log' = log)]_vars
    /\ [](Cardinality(Closed(log)) <= 1)

\* C2 witness: a session that went through the installer has been cleared,
\* its one closed envelope reporting success
C2_Witness ==
    /\ action_id = NULL
    /\ cpc = "cleanup_test"
    /\ installed
    /\ Cardinality(Closed(log)) = 1
    /\ Last(log).finished = "success"

\* the session is in the hands of the installer
WithInstaller == action_id # NULL /\ installed /\ inst = "running"

\* every feedback of the log carries the id of the session it was POSTed in
CarriesId ==
    /\ action_id # NULL => \A k \in 1..Len(log) : log[k].id = action_id
    /\ \A k \in 1..Len(log) : log[k].id = log[1].id

\* C3 as stated: every action id that becomes non-null is eventually followed
\* by a closed feedback carrying it (the log holds the feedback POSTed since
\* action_id was set, all of it carrying that id).
C3_Original ==
    (action_id # NULL) ~> (Closed(log) # {})

\* C3: under fair scheduling of the control thread and the workers, every
\* action id that becomes non-null is eventually followed by a closed feedback
\* carrying it, or the session stays with an installer that has not reported;
\* and no id is ever closed twice in a session.
C3_ClosedUnlessInstallerPending ==
    /\ (action_id # NULL) ~> (Closed(log) # {} \/ WithInstaller)
    /\ [](CarriesId /\ Cardinality(Closed(log)) <= 1)

\* C3 witness: a download failed and its session was closed for it
C3_Witness ==
    /\ action_id # NULL
    /\ log # <<>>
    /\ Last(log).detail = "Download failed"
    /\ ClosedFor(log, action_id) # {}

BeforeClear ==
    {"get_binary", "download_failed", "downloaded", "validate", "software_ready",
     "cleanup_clear"}

\* C5: the events of a session occur in the order set, spawn, download and
\* verify feedback, closed feedback, clear, file removal.  The worker is
\* spawned in a session that has posted nothing yet; a worker is at work only
\* in a spawned session whose action_id is set; feedback is POSTed only while
\* action_id is set and never after the closed one; proceeding feedback only
\* after the spawn, the checksum verdict only right after "Download complete.";
\* action_id is cleared only after the closed feedback; a teardown tests for
\* the file only by way of its clear, and the file is removed only by a
\* teardown that is past its test.
C5_SessionOrder ==
    /\ [][(~spawned /\ spawned')
          => (action_id # NULL /\ action_id' = action_id /\ log = <<>>)]_vars
    /\ [](\A t \in Threads :
            wpc[t] \in BeforeClear => (action_id # NULL /\ spawned))
    /\ [][Posted => (action_id # NULL /\ Closed(log) = {})]_vars
    /\ [][(Posted /\ Last(log').execution = "proceeding") => spawned]_vars
    /\ [][(Posted /\ Last(log').detail \in {"Invalid checksum", "File checksum OK."})
          => (log # <<>> /\ Last(log).detail = "Download complete.")]_vars
    /\ [][(action_id # NULL /\ action_id' = NULL) => Closed(log) # {}]_vars
    /\ [][(cpc' = "cleanup_test" /\ cpc # "cleanup_test")
          => (cpc = "cleanup_clear" /\ action_id' = NULL)]_vars
    /\ [][\A t \in Threads :
            (wpc'[t] = "cleanup_test" /\ wpc[t] # "cleanup_test")
            => (wpc[t] = "cleanup_clear" /\ action_id # NULL /\ action_id' = NULL)]_vars
    /\ [][(file_exists /\ ~file_exists')
          => \/ (cpc = "cleanup_remove" /\ cpc' # cpc /\ action_id = NULL)
             \/ \E t \in Threads : wpc[t] = "cleanup_remove" /\ wpc'[t] = "exited"]_vars

\* C5 witness: a session went through the whole chain: spawned, downloaded,
\* checksum refused, closed, cleared, file removed
C5_Witness ==
    /\ spawned
    /\ Len(log) = 2
    /\ log[1].detail = "Download complete."
    /\ log[2].detail = "Invalid checksum"
    /\ action_id = NULL
    /\ ~file_exists
    /\ ~InTeardown

\* C6: the software-ready callback is invoked only by a worker whose download
\* succeeded with a SHA-1 equal to the declared one; a session in which it was
\* invoked has "Download complete." and "File checksum OK." in its feedback,
\* and neither "Download failed" nor "Invalid checksum".
C6_InstallOnlyVerified ==
    /\ [][(~installed /\ installed')
          => \E t \in Threads :
               /\ wpc[t] = "software_ready"
               /\ wsum[t] \in Hashes
               /\ wart[t].sha1 = wsum[t]]_vars
    /\ [](\A t \in Threads :
            wpc[t] = "software_ready" => (wsum[t] # NULL /\ wart[t].sha1 = wsum[t]))
    /\ [](installed =>
            /\ Len(log) >= 2
            /\ log[1].detail = "Download complete."
            /\ log[2].detail = "File checksum OK."
            /\ \A k \in 1..Len(log) :
                 log[k].detail \notin {"Download failed", "Invalid checksum"})
    /\ []((\E k \in 1..Len(log) :
             log[k].detail \in {"Download failed", "Invalid checksum"})
          => (~installed /\ inst = "idle"))

\* C6 witness: the installer was handed a verified bundle and is running
C6_Witness ==
    /\ installed
    /\ inst = "running"
    /\ action_id # NULL
    /\ Len(log) = 2

NoSpaceFeedback(id) ==
    feedback(build_api_url("feedback", id), id, "Not enough free space.",
             "failure", "closed")

\* C8: if the free space read is less than the declared artifact size,
\* process_deployment POSTs one closed failure feedback carrying the
\* deployment's id and goes to its teardown, and the tick ends with action_id
\* null, no worker spawned, the worker handle as it was and error 23 (which
\* nothing else sets); if the free space is greater than or equal to the
\* declared size the check passes and the worker is spawned.
C8_FreeSpace ==
    /\ [][(cpc = "pd_space" /\ freespace' # -1)
          => IF freespace' < artifact'.size
             THEN /\ log' = <<NoSpaceFeedback(action_id)>>
                  /\ artifact.feedback_url = build_api_url("feedback", action_id)
                  /\ cpc' = "cleanup_clear"
                  /\ cret' = "proc_error"
                  /\ error' = "1:23"
                  /\ UNCHANGED <<action_id, thread_download, wrkVars, spawned>>
             ELSE /\ cpc' = "pd_spawn"
                  /\ UNCHANGED <<log, error>>]_vars
    /\ []((cpc \in {"cleanup_clear", "cleanup_test", "cleanup_remove"}
             /\ cret = "proc_error" /\ error = "1:23")
          => (freespace # -1 /\ freespace < artifact.size))
    /\ []((cpc = "out" /\ error = "1:23")
          => (/\ action_id = NULL
              /\ ~spawned
              /\ ~res
              /\ Len(log) = 1
              /\ log[1].detail = "Not enough free space."
              /\ \A t \in Threads : wpc[t] \notin BeforeClear))
    /\ [](cpc = "pd_spawn"
          => (freespace # -1 /\ freespace >= artifact.size /\ error = ""))
    /\ [][(cpc = "pd_spawn" /\ cpc' # cpc)
          => (cpc' = "out" /\ spawned' /\ res')]_vars
    /\ [][(cret = "proc_error" /\ error = "1:23" /\ cpc' # cpc)
          => thread_download' = thread_download]_vars

\* C8 witness: a deployment larger than the free space was refused, and the
\* tick is at its end
C8_Witness ==
    /\ cpc = "out"
    /\ error = "1:23"
    /\ action_id = NULL
    /\ ~spawned
    /\ Len(log) = 1
    /\ log[1].detail = "Not enough free space."

\* C9 as stated, for hashes.sha1 (artifact.sha1 is NULL after the parse step
\* only if the member is missing or the parse failed): if any required field of the deployment resource is missing
\* (first chunk, first artifact, size, hashes.sha1, name, version, or both
\* download links), process_deployment sends the closed failure feedback
\* "Failed to parse deployment resource.", returns a parse error and does not
\* spawn the worker.
C9_Original ==
    [][(cpc = "pd_parse" /\ cpc' # cpc /\ artifact'.sha1 = NULL)
       => (/\ Posted
           /\ Last(log').detail = "Failed to parse deployment resource."
           /\ Last(log').execution = "closed"
           /\ error' = "JSON_RESPONSE_PARSE"
           /\ cpc' = "cleanup_clear")]_vars

\* the tick's deployment, if it was offered one, succeeded
DeploymentOk == json_root.deploymentBase # "none" => error = ""

Seconds(str) ==
    (str[1] * 60 * 60) + (str[2] * 60) + (IF Len(str) >= 3 THEN str[3] ELSE 0)

\* C11 as stated: after every base poll attempt the polling interval equals
\* the advertised config.polling.sleep converted to seconds if the base GET
\* succeeded and retry_wait if it failed, and nothing later in the tick
\* (identify, process_deployment) changes it.
C11_Original ==
    /\ []((cpc = "polled" /\ json_root.sleep # NoSleep)
            => interval = Seconds(json_root.sleep))
    /\ []((cpc = "out" /\ ~base_ok) => interval = retry_wait)
    /\ [][cpc # "idle" => interval' = interval]_vars

\* the counters as hawkbit_start_service_sync leaves them: the first tick polls
InitialCounters == last_run = retry_wait /\ interval = retry_wait

\* a step that sends the base GET
BasePoll == reqs = <<>> /\ reqs' # <<>>

\* C12: every tick either counts one more second without a request, which it
\* does exactly when the count stays below the interval, or resets the count
\* to 0 and sends the base GET, which it does exactly when the count has
\* reached the interval; the count of ticks since a poll that set the
\* interval to N stays below N, so the next base poll is on the N-th tick
\* after it and on none before.
C12_PollCadence ==
    /\ [](last_run < interval \/ (InitialCounters /\ cpc = "idle"))
    /\ [][last_run' # last_run
          => \/ /\ last_run' = last_run + 1
                /\ last_run' < interval
                /\ UNCHANGED <<cpc, reqs, interval>>
             \/ /\ last_run' = 0
                /\ BasePoll]_vars
    /\ [][BasePoll
          => (/\ Dispatching
              /\ ~(last_run + 1 < interval)
              /\ (last_run + 1 = interval \/ InitialCounters)
              /\ last_run' = 0
              /\ reqs' = <<rest_request("GET", build_api_url("base", NULL),
                                        NoBody)>>)]_vars
    /\ [][(Dispatching /\ last_run + 1 < interval)
          => (reqs' = <<>> /\ last_run' \in {last_run, last_run + 1})]_vars

\* C12 witness: one tick after a poll that set the interval to 2 seconds, no
\* request sent on it
C12_Witness ==
    /\ cpc = "idle"
    /\ interval = 2
    /\ last_run = 1
    /\ reqs = <<>>

\* a worker on a failure path: its download failed, or it is in the teardown
\* of down_error
OnFailurePath(t) ==
    wpc[t] \in {"download_failed", "cleanup_clear", "cleanup_test",
                "cleanup_remove"}

\* the worker leaves the download or the checksum comparison as a failure
FailsNow(t) ==
    \/ wpc[t] = "download_failed" /\ wpc'[t] # wpc[t]
    \/ wpc[t] = "validate" /\ wpc'[t] # wpc[t] /\ wart[t].sha1 # wsum[t]

\* C13: a worker whose download failed or whose computed SHA-1 differs from
\* the declared one posts exactly one feedback, finished = failure and
\* execution = closed, carrying the id of the open session and sent to its
\* feedback URL, and enters the teardown; the teardown's first step sets
\* action_id to null, the worker posts nothing more and takes only teardown
\* steps, and under fair scheduling it exits.
C13_WorkerFailure ==
    /\ [][\A t \in Threads :
            FailsNow(t)
            => (/\ action_id # NULL
                /\ log' = Append(log, Last(log'))
                /\ Last(log').finished = "failure"
                /\ Last(log').execution = "closed"
                /\ Last(log').id = action_id
                /\ Last(log').url = build_api_url("feedback", action_id)
                /\ wpc'[t] = "cleanup_clear"
                /\ action_id' = action_id)]_vars
    /\ [][\A t \in Threads :
            (wpc[t] = "cleanup_clear" /\ wpc'[t] # wpc[t])
            => (action_id' = NULL /\ wpc'[t] = "cleanup_test")]_vars
    /\ [][\A t \in Threads :
            (wpc[t] \in {"cleanup_test", "cleanup_remove"} /\ wpc'[t] # wpc[t])
            => (/\ wpc'[t] \in {"cleanup_remove", "exited"}
                /\ UNCHANGED <<action_id, log>>)]_vars
    /\ (\E t \in Threads : OnFailurePath(t))
         ~> (\A t \in Threads : ~OnFailurePath(t))

\* C13 witness: a worker has exited through down_error after a checksum
\* mismatch, the session closed by its one failure feedback and action_id null
C13_Witness ==
    /\ \E t \in Threads : wpc[t] = "exited"
    /\ action_id = NULL
    /\ Len(log) = 2
    /\ log[2].detail = "Invalid checksum"
    /\ log[2].finished = "failure"
    /\ log[2].execution = "closed"
    /\ ~installed

\* install_complete_cb is called with a session open
CompleteCalled == InstallerReports /\ action_id # NULL /\ inst' = "idle"

\* install_complete_cb returns to the event loop
CompleteReturns == cret = "complete" /\ cpc # "idle" /\ cpc' = "idle"

\* the control thread is in the second process_deployment_cleanup of the
\* success+reboot path, after a reboot call that failed
SecondTeardown ==
    /\ cpc \in {"cleanup_clear", "cleanup_test", "cleanup_remove"}
    /\ cret = "complete"
    /\ install_success
    /\ post_update_reboot

\* install_complete_cb called with a session open posts one closed feedback
\* for it, finished = success exactly when the installer reported success
CompleteFeedback ==
    [][CompleteCalled
       => (/\ log' = Append(log, Last(log'))
           /\ Last(log').execution = "closed"
           /\ Last(log').id = action_id
           /\ Last(log').finished \in {"success", "failure"}
           /\ (Last(log').finished = "success" <=> install_success')
           /\ cpc' = "cleanup_clear")]_vars

\* C14 as stated: install_complete_cb with an active session posts one closed
\* feedback, finished = success iff the installer reported success; when it
\* returns the teardown has run, action_id is null and the file is removed;
\* in the success+reboot path the second teardown changes nothing.
C14_Original ==
    /\ CompleteFeedback
    /\ [][CompleteReturns => (action_id' = NULL /\ ~file_exists')]_vars
    /\ [][SecondTeardown => UNCHANGED <<action_id, file_exists>>]_vars

\* C14: install_complete_cb with an active session posts one closed feedback,
\* finished = success iff the installer reported success; when it returns the
\* teardown has run: action_id is null and the file is gone unless the unlink
\* failed; in the success+reboot path, after a reboot call that failed, the
\* teardown runs a second time, which leaves action_id null and changes the
\* file only if the first unlink had failed and this one removes it.
C14_CompleteTeardown ==
    /\ CompleteFeedback
    /\ [][CompleteReturns
          => (action_id' = NULL /\ (file_exists' => unlink_failed'))]_vars
    /\ [](SecondTeardown => (action_id = NULL /\ (file_exists => unlink_failed)))
    /\ [][SecondTeardown
          => (/\ UNCHANGED <<action_id, log>>
              /\ (file_exists' # file_exists
                    => (unlink_failed /\ ~file_exists')))]_vars

\* C14 witness: the second teardown of the success+reboot path is about to
\* return, action_id null and the file removed by the first
C14_Witness ==
    /\ SecondTeardown
    /\ cpc = "cleanup_test"
    /\ action_id = NULL
    /\ ~file_exists
    /\ Last(log).finished = "success"

\* the session was closed with the success feedback and torn down
ClosedWithSuccess ==
    /\ Len(log) > 0
    /\ Last(log).finished = "success"
    /\ Last(log).execution = "closed"
    /\ action_id = NULL

\* a reboot is attempted only in install_complete_cb, and never on an install
\* failure or with post_update_reboot unset; a reboot call that fails leaves
\* the process alive, its loop as it was and the session closed, and the
\* callback goes on to its last teardown
RebootRules ==
    /\ [](cpc = "reboot" => (install_success /\ post_update_reboot))
    /\ [][rebooted' # rebooted => (cpc = "reboot" /\ rebooted')]_vars
    /\ [][(CompleteCalled /\ ~(install_success' /\ post_update_reboot))
          => cret' = "complete"]_vars
    /\ []((cret = "complete" /\ ~(install_success /\ post_update_reboot))
            => cpc # "reboot")
    /\ [][(cpc = "reboot" /\ ~rebooted')
          => (/\ cpc' = "cleanup_clear"
              /\ cret' = "complete"
              /\ action_id' = NULL
              /\ UNCHANGED <<loop_running, data_res, log, file_exists>>)]_vars

\* C15 as stated: a reboot is attempted only after a successful install with
\* post_update_reboot set, and only after the success closed feedback has
\* been posted and the teardown has cleared action_id and removed the file;
\* none is attempted on install failure or with the flag unset, and a failed
\* reboot call leaves the agent running with the session closed.
C15_Original ==
    /\ RebootRules
    /\ [](cpc = "reboot" => (ClosedWithSuccess /\ ~file_exists))

\* C15: a reboot is attempted only after a successful install with
\* post_update_reboot set, and only after the success closed feedback has
\* been posted and the teardown has cleared action_id and has removed the
\* file or failed to unlink it; none is attempted on install failure or with
\* the flag unset, and a failed reboot call leaves the agent running with the
\* session closed.
C15_RebootAfterClose ==
    /\ RebootRules
    /\ [](cpc = "reboot"
            => (ClosedWithSuccess /\ (file_exists => unlink_failed)))
    /\ [](rebooted => (ClosedWithSuccess /\ post_update_reboot))

\* C15 witness: the agent has rebooted, the session closed with success and
\* the bundle file removed
C15_Witness ==
    /\ rebooted
    /\ ClosedWithSuccess
    /\ ~file_exists
    /\ installed

\* C16: hawkbit_progress called with no session open sends no request and
\* changes no state, and no feedback at all is posted while action_id is
\* null; called with a session open it posts exactly one proceeding feedback,
\* carrying the current action id and sent to its feedback URL, and leaves
\* action_id, the bundle file, the worker handle, the workers and the control
\* thread as they were.
C16_ProgressFrame ==
    /\ [][(hawkbit_progress /\ action_id = NULL) => UNCHANGED vars]_vars
    /\ [][action_id = NULL => (log' = log \/ log' = <<>>)]_vars
    /\ [][nprog' = nprog + 1
          => (/\ Dispatching
              /\ action_id # NULL
              /\ log' = Append(log, Last(log'))
              /\ Last(log').execution = "proceeding"
              /\ Last(log').finished = "none"
              /\ Last(log').id = action_id
              /\ Last(log').url = build_api_url("feedback", action_id)
              /\ UNCHANGED <<action_id, file_exists, thread_download, wrkVars,
                             ctlVars, pollVars, procVars, inst>>)]_vars
    /\ [][(hawkbit_progress /\ action_id # NULL) => nprog' = nprog + 1]_vars

\* C16 witness: the installer's progress report was posted for the open
\* session, action_id still set
C16_Witness ==
    /\ nprog = 1
    /\ inst = "running"
    /\ action_id # NULL
    /\ Last(log).detail = "progress"
    /\ Last(log).execution = "proceeding"
    /\ cpc = "idle"

\* the event loop has stopped (run_once) or the installer has reported
NotHung == inst # "running" \/ ~loop_running

\* C17: from the software-ready callback until install_complete_cb is called,
\* action_id keeps its non-null value whatever else happens; every deployment
\* the base poll offers meanwhile is rejected as already in progress, with no
\* deployment GET, no feedback and no change to the session; and, the event
\* loop running and scheduled fairly, a hung installer does not stop the
\* polling: ticks keep ending and base GETs keep being sent.
C17_HungInstaller ==
    /\ [](inst = "running" => WithInstaller)
    /\ [][(inst = "running" /\ inst' = "running")
          => action_id' = action_id]_vars
    /\ [][(inst = "running" /\ cpc = "polled" /\ cpc' # cpc
             /\ json_root'.deploymentBase # "none")
          => (/\ cpc' = "out"
              /\ error' = "ALREADY_IN_PROGRESS"
              /\ ~res'
              /\ reqs' \in {reqs, Append(reqs, identify)}
              /\ UNCHANGED <<action_id, thread_download, file_exists, log,
                             wrkVars, insVars>>)]_vars
    /\ []<>(NotHung \/ cpc = "idle")
    /\ []<>(NotHung \/ cpc = "polled" \/ (cpc = "out" /\ ~base_ok))

\* C17 witness: the installer has sent its progress report and not its
\* completion, and a deployment offered by a later poll was rejected
C17_Witness ==
    /\ WithInstaller
    /\ nprog = MaxProgress
    /\ cpc = "out"
    /\ error = "ALREADY_IN_PROGRESS"
    /\ ~res
    /\ interval = 1

\* the places in the tick's requests of the identify PUT and of the
\* deployment GET
IdentifyPuts == {k \in 1..Len(reqs) : reqs[k].method = "PUT"}
DeploymentGets ==
    {k \in 1..Len(reqs) :
        reqs[k] = rest_request("GET", build_api_url("deployment", NULL), NoBody)}

\* C18: when the base response holds the configData link the tick sends one
\* PUT to configData whose envelope has no id, execution = closed, finished =
\* success and the device attributes as data, and it sends it after the base
\* GET and before the deployment GET, before process_deployment has done
\* anything; without the link no PUT is sent.  A failed identify does not end
\* the tick: a deploymentBase link of the same response is still processed,
\* the deployment GET sent if no session is open.
C18_IdentifyFirst ==
    /\ [][(cpc = "polled" /\ cpc' # cpc)
          => IF identified' = "none"
             THEN reqs' = reqs
             ELSE /\ reqs' = Append(reqs, Last(reqs'))
                  /\ Last(reqs').method = "PUT"
                  /\ Last(reqs').url = build_api_url("configData", NULL)
                  /\ Last(reqs').body.id = NULL
                  /\ Last(reqs').body.execution = "closed"
                  /\ Last(reqs').body.finished = "success"
                  /\ Last(reqs').body.data = "device"
                  /\ UNCHANGED <<action_id, log, depVars, wrkVars>>]_vars
    /\ [](identified = "none" <=> IdentifyPuts = {})
    /\ [](\A k \in IdentifyPuts :
             /\ k = 2
             /\ reqs[1] = rest_request("GET", build_api_url("base", NULL), NoBody)
             /\ \A g \in DeploymentGets : k < g)
    /\ [][(cpc = "polled" /\ cpc' # cpc /\ identified' = "failed")
          => CASE json_root'.deploymentBase = "none" -> cpc' = "out" /\ ~res'
               [] action_id # NULL ->
                    cpc' = "out" /\ error' = "ALREADY_IN_PROGRESS"
               [] json_root'.deploymentBase = "nohref" ->
                    cpc' = "out" /\ error' = "JSON_RESPONSE_PARSE"
               [] OTHER -> cpc' = "pd_get"]_vars
    /\ [][(cpc = "pd_get" /\ cpc' # cpc)
          => (reqs' = Append(reqs, Last(reqs')) /\ DeploymentGets' # {})]_vars

\* C18 witness: identify failed, the deployment offered by the same response
\* was still processed and its worker spawned, the PUT sent before the
\* deployment GET
C18_Witness ==
    /\ identified = "failed"
    /\ cpc = "out"
    /\ res
    /\ spawned
    /\ IdentifyPuts = {2}
    /\ DeploymentGets = {3}

\* the tick is past the links of a base response without deploymentBase
NoWork == cpc = "out" /\ base_ok /\ json_root.deploymentBase = "none"

\* C19: a base poll whose response has no deploymentBase link goes straight
\* to the end of the tick: it leaves action_id, the worker handle, the
\* workers, the bundle file and the feedback sent as they were, sends no
\* deployment GET (at most the identify PUT), sets no error, and its result
\* is that of identify alone.  This is so with or without a cancelAction
\* link, which therefore neither fails the tick nor touches an open session.
C19_NoWorkFrame ==
    /\ [][(cpc = "polled" /\ cpc' # cpc /\ json_root'.deploymentBase = "none")
          => (/\ cpc' = "out"
              /\ error' = ""
              /\ (res' <=> identified' # "failed")
              /\ reqs' \in {reqs, Append(reqs, identify)}
              /\ UNCHANGED <<action_id, thread_download, file_exists, log,
                             depVars, wrkVars, insVars, spawned, installed,
                             pollVars>>)]_vars
    /\ [](NoWork => (/\ DeploymentGets = {}
                     /\ error = ""
                     /\ (res <=> identified # "failed")))
    /\ [][(NoWork /\ cpc' # cpc)
          => (/\ cpc' = "idle"
              /\ UNCHANGED <<action_id, thread_download, file_exists, log,
                             wrkVars, insVars, spawned, installed>>)]_vars

\* C19 witness: a response with a cancelAction link and no deploymentBase
\* link, polled while a worker downloads for the open session; the tick
\* succeeded
C19_Witness ==
    /\ NoWork
    /\ json_root.cancelAction
    /\ res
    /\ action_id # NULL
    /\ \E t \in Threads : wpc[t] = "get_binary"

\* the download workers that are running
Running == {t \in Threads : wpc[t] \notin {"none", "exited"}}

\* a download_thread is started by this step
Spawns == \E t \in Threads : wpc[t] # "get_binary" /\ wpc'[t] = "get_binary"

\* C20: at any instant at most one download worker is running, and it is the
\* one thread_download names; a worker is started only by process_deployment
\* at its spawn, with a session open, and only when the previous handle is
\* null or names a worker that has exited, so that no worker is running at
\* that moment; process_deployment waits at the join while the previous
\* worker, having cleared action_id, is still in its teardown.
C20_OneWorker ==
    /\ [](Cardinality(Running) <= 1)
    /\ [](\A t \in Running : t = thread_download)
    /\ [][(Spawns \/ thread_download' # thread_download)
          => (/\ cpc = "pd_spawn"
              /\ action_id # NULL
              /\ (thread_download = NULL \/ wpc[thread_download] = "exited")
              /\ Running = {}
              /\ Running' = {thread_download'}
              /\ Spawns)]_vars
    /\ [][(cpc = "pd_spawn" /\ Running # {}) => cpc' = "pd_spawn"]_vars

\* C20 witness: the previous worker cleared action_id on its failure path, a
\* new deployment was accepted and process_deployment is at the join while
\* that worker still has the file to remove
C20_Witness ==
    /\ cpc = "pd_spawn"
    /\ action_id # NULL
    /\ thread_download # NULL
    /\ wpc[thread_download] = "cleanup_remove"
    /\ file_exists

\* the feedback of a session up to the call of the installer, on the path of
\* a download that succeeded and a checksum that matched
HappyPrefix(l) ==
    /\ Len(l) >= 2
    /\ l[1].detail = "Download complete."
    /\ l[1].execution = "proceeding"
    /\ l[2].detail = "File checksum OK."
    /\ l[2].execution = "proceeding"

\* a worker takes a step of the path from the end of the download to the call
\* of the installer
HappyStep(t) ==
    /\ wpc'[t] # wpc[t]
    /\ \/ wpc[t] = "downloaded"
       \/ wpc[t] = "validate" /\ wart[t].sha1 = wsum[t]
       \/ wpc[t] = "software_ready"

\* C21: in a session whose download succeeds and whose checksum matches, the
\* worker posts proceeding "Download complete.", then proceeding "File
\* checksum OK.", then invokes the installer, nothing else posted in between;
\* the closed success feedback is posted only after that, by
\* install_complete_cb when the installer reports success, and carries the id
\* the two proceeding feedbacks carried; no step of the worker on this path
\* changes action_id, and the worker exits with the session open.
C21_HappyPath ==
    /\ [][\A t \in Threads :
            HappyStep(t)
            => (/\ action_id # NULL
                /\ action_id' = action_id
                /\ CASE wpc[t] = "downloaded" ->
                          /\ log = <<>>
                          /\ Len(log') = 1
                          /\ log'[1].detail = "Download complete."
                          /\ log'[1].execution = "proceeding"
                          /\ wpc'[t] = "validate"
                     [] wpc[t] = "validate" ->
                          /\ Len(log) = 1
                          /\ HappyPrefix(log')
                          /\ Len(log') = 2
                          /\ wpc'[t] = "software_ready"
                     [] OTHER ->
                          /\ HappyPrefix(log)
                          /\ Len(log) = 2
                          /\ log' = log
                          /\ ~installed /\ installed'
                          /\ inst' = "running"
                          /\ wpc'[t] = "exited")]_vars
    /\ [](installed => HappyPrefix(log))
    /\ [][(Posted /\ Last(log').finished = "success")
          => (/\ installed
              /\ inst = "running"
              /\ install_success'
              /\ HappyPrefix(log)
              /\ Last(log').execution = "closed"
              /\ Last(log').id = action_id
              /\ log[1].id = action_id
              /\ log[2].id = action_id
              /\ \A k \in 3..Len(log) : log[k].execution = "proceeding")]_vars
    /\ [][(installed /\ inst = "running" /\ inst' = "running")
          => action_id' = action_id]_vars

\* C21 witness: a session went down the whole happy path, the installer's
\* progress report included, and was closed with success
C21_Witness ==
    /\ Len(log) = 4
    /\ HappyPrefix(log)
    /\ log[3].detail = "progress"
    /\ log[4].finished = "success"
    /\ log[4].execution = "closed"
    /\ log[4].id = log[1].id
    /\ cpc = "idle"
    /\ action_id = NULL

\* the feedback URL build_api_url makes for an action id
FeedbackUrl(id) == build_api_url("feedback", id)

\* C22: every feedback POST, whichever of process_deployment, the worker,
\* hawkbit_progress and install_complete_cb sends it, is sent while action_id
\* is set, carries that id, goes to the feedback URL of that id and leaves
\* action_id as it is; so no feedback of the log has a null id, all of it
\* carries the id of the session it was sent in, and a worker that has not
\* yet cleared action_id reads the id it was spawned for, the one its
\* artifact's feedback URL was built from.
C22_FeedbackId ==
    /\ [][Posted
          => (/\ action_id # NULL
              /\ action_id' = action_id
              /\ log' = Append(log, Last(log'))
              /\ Last(log').method = "POST"
              /\ Last(log').id = action_id
              /\ Last(log').url = FeedbackUrl(action_id))]_vars
    /\ [](\A k \in 1..Len(log) :
            /\ log[k].id # NULL
            /\ log[k].id = log[1].id
            /\ log[k].url = FeedbackUrl(log[k].id)
            /\ (action_id # NULL => log[k].id = action_id))
    /\ [](\A t \in Threads :
            wpc[t] \in BeforeClear
            => (/\ action_id # NULL
                /\ (wpc[t] # "cleanup_clear"
                      => wart[t].feedback_url = FeedbackUrl(action_id))))
    /\ [][\A t \in Threads :
            (wpc[t] \in BeforeClear /\ wpc'[t] \in BeforeClear)
            => action_id' = action_id]_vars

\* C22 witness: a session with id 2, its worker's two feedbacks and the
\* installer's progress report carrying that id and sent to its feedback URL
C22_Witness ==
    /\ action_id = 2
    /\ Len(log) = 3
    /\ log[1].id = 2
    /\ log[2].url = FeedbackUrl(2)
    /\ log[3].id = 2
    /\ log[3].detail = "progress"
    /\ inst = "running"

\* ---- C23
\* the Authorization lines of a header list
AuthHeaders(h) == SelectSeq(h, LAMBDA x : x.name = "Authorization")

\* the header lists of every request on record: the feedback POSTs, the GETs
\* and PUTs of the poll, and the downloads
SentHeaders ==
    {log[i].headers : i \in 1..Len(log)}
    \cup {reqs[i].headers : i \in 1..Len(reqs)}
    \cup {wreq[t] : t \in {u \in Threads : wreq[u] # <<>>}}

\* C23: every outgoing request, REST or download, carries at most one
\* Authorization header: none when no token is configured, TargetToken when a
\* target token is configured (also when a gateway token is configured as
\* well), GatewayToken only when the gateway token alone is configured.
C23_OneAuthorization ==
    \A h \in SentHeaders :
        LET a == AuthHeaders(h)
        IN /\ Len(a) <= 1
           /\ (~auth_token /\ ~gateway_token) => a = <<>>
           /\ auth_token => (Len(a) = 1 /\ a[1].value = "TargetToken")
           /\ (gateway_token /\ ~auth_token)
                  => (Len(a) = 1 /\ a[1].value = "GatewayToken")
           /\ (a # <<>> /\ a[1].value = "GatewayToken") => ~auth_token

\* both tokens are configured, and a poll request, a download and a feedback
\* POST have gone out
C23_Witness ==
    /\ auth_token
    /\ gateway_token
    /\ reqs # <<>>
    /\ log # <<>>
    /\ \E t \in Threads : wreq[t] # <<>>

\* ---- C24
\* the original statement of C24: once a closed feedback has been POSTed for
\* an action id, no further feedback carrying that id is ever POSTed, in this
\* session or in a later one
C24_Original ==
    [][Posted => (ClosedFor(log, Last(log').id) = {} /\ reoffered # "again")]_vars

\* C24 (amended): within a session, once a closed feedback has been POSTed no
\* further feedback is POSTed, under any interleaving of the worker, the poll
\* ticks and the progress and completion callbacks; the closed feedback is the
\* last POST that carries the id until a poll is offered the same id again and
\* opens a new session for it.
C24_ClosedIsLast ==
    /\ [][Posted => (Closed(log) = {} /\ action_id # NULL
                     /\ Last(log').id = action_id)]_vars
    /\ [](Closed(log) # {} => Closed(log) = {Len(log)})
    /\ [][(Closed(log) # {} /\ log' # log)
            => (log' = <<>> /\ action_id = NULL /\ action_id' # NULL
                /\ cpc = "pd_get")]_vars

\* the server offered the id the previous session had closed, and the new
\* session has POSTed a proceeding and then its own closed feedback for it
C24_Witness ==
    /\ reoffered = "again"
    /\ Len(log) >= 2
    /\ Closed(log) = {Len(log)}
    /\ log[1].execution = "proceeding"

\* ---- C25
\* the bundle file is removed by this step
Removed == file_exists /\ ~file_exists'

\* the control thread, or worker t, leaves the g_remove of its teardown
ControlRemoves == cpc = "cleanup_remove" /\ cpc' # cpc
WorkerRemoves(t) == wpc[t] = "cleanup_remove" /\ wpc'[t] # wpc[t]

\* the original statement of C25: the file written by the worker of a
\* session is never removed by the teardown of a different session, be it a
\* teardown on the control thread (which belongs to the session that set
\* action_id last) or one on a worker
C25_Original ==
    [][Removed => /\ own_file = "yes"
                  /\ ControlRemoves => spawned
                  /\ \A t \in Threads : WorkerRemoves(t) => t = thread_download]_vars

\* C25 (amended): the file written by the worker of a session is never
\* removed by the teardown of an earlier session: a previous worker that has
\* cleared action_id but not yet removed the file ends before the next
\* session's worker is spawned and opens the file, in every interleaving; and
\* while that session is open the file is removed by nobody. The teardown of a
\* later session may remove it.
C25_JoinBeforeOpen ==
    /\ [][\A t \in Threads :
            (wpc[t] = "get_binary" /\ wpc'[t] # wpc[t])
                => /\ t = thread_download
                   /\ spawned
                   /\ action_id # NULL
                   /\ \A u \in Threads \ {t} : wpc[u] \in {"none", "exited"}]_vars
    /\ [][(Removed /\ own_file = "yes")
            => /\ action_id = NULL \/ ~spawned
               /\ \A t \in Threads : WorkerRemoves(t) => t = thread_download]_vars
    /\ [][(own_file = "yes" /\ spawned /\ action_id # NULL /\ action_id' # NULL)
            => file_exists']_vars

\* the next session waits at the join while the previous worker has cleared
\* action_id and has yet to remove the file it wrote
C25_Witness ==
    /\ cpc = "pd_spawn"
    /\ action_id # NULL
    /\ thread_download # NULL
    /\ wpc[thread_download] = "cleanup_remove"
    /\ file_exists
    /\ own_file = "yes"

\* ---- C26
\* process_deployment leaves its GET of the deployment resource without an
\* action id: the GET failed, or the response carries no id
NoIdStep == cpc = "pd_get" /\ cpc' # cpc /\ action_id' = NULL

\* C26: if the GET of the deployment resource fails, or the response has no
\* id, process_deployment opens no session: it returns FALSE with the error
\* set, action_id stays null, no feedback is POSTed, no worker is spawned and
\* the bundle file is not touched.
C26_NoSession ==
    /\ [][NoIdStep => /\ action_id = NULL
                      /\ cpc' = "out"
                      /\ ~res'
                      /\ error' \in {"HTTP", "1:1"}
                      /\ log' = log
                      /\ spawned' = spawned
                      /\ thread_download' = thread_download
                      /\ wpc' = wpc
                      /\ file_exists' = file_exists
                      /\ unlink_failed' = unlink_failed
                      /\ Last(reqs').method = "GET"
                      /\ Last(reqs').url = build_api_url("deployment", NULL)]_vars
    /\ [][cpc = "pd_get" /\ cpc' = "out" => action_id' = NULL]_vars
    /\ []((/\ cpc = "out"
           /\ error \in {"HTTP", "1:1"}
           /\ reqs # <<>>
           /\ Last(reqs).url = build_api_url("deployment", NULL))
              => (action_id = NULL /\ ~res))

\* process_deployment has returned for a response without an id, while the
\* file of an earlier session is still on disk
C26_Witness ==
    /\ cpc = "out"
    /\ error = "1:1"
    /\ action_id = NULL
    /\ file_exists
    /\ Len(log) >= 1

\* ---- C27
\* the control thread is inside install_complete_cb, past its feedback
InComplete == cret \in {"complete", "reboot"} \/ cpc = "reboot"

\* C27: install_complete_cb invoked while action_id is null (no session was
\* opened, or the session was already torn down by an earlier completion
\* report) sends no feedback, does not remove the file and does not reboot,
\* whatever the success flag and post_update_reboot: the control thread stays
\* in its main loop and nothing changes. The callback posts, tears down and
\* reboots only for a session that is open when it is called.
C27_NullComplete ==
    /\ [][(cpc = "idle" /\ action_id = NULL)
            => /\ log' = log
               /\ ~InComplete'
               /\ cpc' \in {"idle", "polled", "out"}
               /\ rebooted' = rebooted
               /\ install_success' = install_success
               /\ (file_exists' # file_exists
                     => \E t \in Threads : wpc'[t] # wpc[t])]_vars
    /\ [][(~InComplete /\ InComplete')
            => /\ action_id # NULL
               /\ cpc = "idle"
               /\ Posted
               /\ Last(log').id = action_id
               /\ Last(log').execution = "closed"]_vars
    /\ [][rebooted' # rebooted => (cpc = "reboot" /\ InComplete)]_vars

\* a completion report can arrive again after the session it belongs to was
\* closed and torn down, with the file still on disk and the reboot configured
C27_Witness ==
    /\ LateReport
    /\ installed
    /\ Len(log) >= 3
    /\ Last(log).execution = "closed"
    /\ Last(log).finished = "success"
    /\ file_exists
    /\ post_update_reboot

\* ---- C28
\* a timer tick: hawkbit_pull_cb counted a second or polled
Tick == last_run' # last_run

\* C28: the service starts with the elapsed seconds at retry_wait, not at 0,
\* so the very first timer tick after the start performs the first base poll:
\* it does not wait, it resets the count and sends the base GET; and until
\* that tick nothing has been requested and no session is open.
C28_FirstTickPolls ==
    /\ InitialCounters
    /\ [][(last_run = retry_wait /\ Tick)
            => /\ BasePoll
               /\ last_run' = 0
               /\ cpc' \in {"polled", "out"}
               /\ Last(reqs').url = build_api_url("base", NULL)]_vars
    /\ [](last_run = retry_wait
            => /\ interval = retry_wait
               /\ cpc = "idle"
               /\ reqs = <<>>
               /\ log = <<>>
               /\ action_id = NULL
               /\ thread_download = NULL)
    /\ [][last_run # retry_wait => last_run' # retry_wait]_vars

\* the first tick has sent the base GET: the count is back at 0 and no
\* session has been opened yet
C28_Witness ==
    /\ cpc = "polled"
    /\ last_run = 0
    /\ Len(reqs) = 1
    /\ reqs[1].method = "GET"
    /\ log = <<>>
    /\ thread_download = NULL
    /\ action_id = NULL
====
